---- MODULE Spec2Model ----
(***************************************************************************)
(* Model of frontend/lib/src/components/shared/Toolbar/Toolbar.tsx:        *)
(* the ToolbarAction button and the Toolbar container with its built-in    *)
(* fullscreen toggle.  JavaScript values are modelled as strings:          *)
(* "undefined", "true", "false", "" and the names of callbacks, icons,     *)
(* and labels.  The styling target, which the Toolbar only forwards to its *)
(* wrapper, is left out.                                                   *)
(***************************************************************************)
EXTENDS Naturals, Sequences, FiniteSets

VARIABLES props, ctx, out, eventLog

vars == <<props, ctx, out, eventLog>>

\* ------------------------------------------------------------------ bounds
MaxChildren == 1

\* ------------------------------------------------------- JavaScript values
Undefined == "undefined"

OptBool == {Undefined, "true", "false"}

\* JS truthiness of the values that occur here
Truthy(v) == v \notin {Undefined, "false", ""}

\* a || b
Or(a, b) == IF Truthy(a) THEN a ELSE b

\* a && b
And(a, b) == IF Truthy(a) THEN b ELSE a

\* !a
Not(a) == IF Truthy(a) THEN "false" ELSE "true"

\* a ?? b
Nullish(a, b) == IF a = Undefined THEN b ELSE a

\* {cond && <Element/>} in child position: the element, or nothing
Cond(c, element) == IF Truthy(c) THEN <<element>> ELSE <<>>

\* ------------------------------------------------------------ input domains
Labels == {"", "Download"}
Icons == {Undefined, "Search"}

\* ToolbarActionProps of a caller-supplied child action
ToolbarActionProps ==
  [label : Labels, show_label : OptBool, icon : Icons, onClick : {"childOnClick"}]

\* ToolbarProps
ToolbarProps ==
  [onExpand : {Undefined, "onExpand"}, onCollapse : {Undefined, "onCollapse"},
   isFullScreen : OptBool, locked : OptBool,
   disableFullscreenMode : OptBool,
   children : UNION {[1..n -> ToolbarActionProps] : n \in 0..MaxChildren}]

\* no ElementFullscreenContext provider above the Toolbar
NoContext ==
  [provided |-> FALSE, expanded |-> Undefined, expand |-> Undefined, collapse |-> Undefined]

\* value supplied by an ElementFullscreenContext provider
ContextValue(e) ==
  [provided |-> TRUE, expanded |-> e, expand |-> "expand", collapse |-> "collapse"]

Contexts == {NoContext} \cup {ContextValue(e) : e \in {"true", "false"}}

\* slip: the handler never stops propagation
ButtonOnClick_NoStop(onClick) ==
  IF Truthy(onClick) THEN <<[op |-> "call", fn |-> onClick]>> ELSE <<>>

\* ------------------------------------------------------------ ToolbarAction
\* Button onClick handler: the operations it performs, in order
ButtonOnClick(onClick) ==
  (IF Truthy(onClick) THEN <<[op |-> "call", fn |-> onClick]>> ELSE <<>>)
    \o <<[op |-> "stopPropagation", fn |-> Undefined]>>

\* slip: the accessible name follows the displayed label
ToolbarAction_AriaDisplay(p) ==
  LET displayLabel == IF Truthy(p.show_label) THEN p.label ELSE ""
  IN [testid |-> "stElementToolbarButton",
      tooltip |-> p.label,
      ariaLabel |-> displayLabel,
      content |-> Cond(p.icon, [tag |-> "Icon", value |-> p.icon])
                    \o Cond(displayLabel, [tag |-> "span", value |-> displayLabel]),
      onClick |-> p.onClick]

\* rendered ToolbarAction
ToolbarAction(p) ==
  LET displayLabel == IF Truthy(p.show_label) THEN p.label ELSE ""
  IN [testid |-> "stElementToolbarButton",
      tooltip |-> p.label,
      ariaLabel |-> p.label,
      content |-> Cond(p.icon, [tag |-> "Icon", value |-> p.icon])
                    \o Cond(displayLabel, [tag |-> "span", value |-> displayLabel]),
      onClick |-> p.onClick]

\* ------------------------------------------------------------------ Toolbar
\* useRequiredContext(ElementFullscreenContext)
useRequiredContext(c) == [threw |-> ~c.provided, value |-> c]

\* slip: no fallback to the context's expand
FinalOnExpand_PropOnly(p, c) == p.onExpand


FinalOnExpand(p, c) == Or(p.onExpand, c.expand)

FinalOnCollapse(p, c) == Or(p.onCollapse, c.collapse)

\* slip: || in place of ??, so an explicit false falls through to the context
FinalIsFullScreen_Or(p, c) == Or(p.isFullScreen, c.expanded)


FinalIsFullScreen(p, c) == Nullish(p.isFullScreen, c.expanded)

\* slip: the fullscreen state is not threaded into locked
WrapperLocked_PropOnly(p, c) == Or(p.locked, "false")

\* locked={locked || finalIsFullScreen}
WrapperLocked(p, c) == Or(p.locked, FinalIsFullScreen(p, c))

\* slip: the expand action is not tied to the fullscreen boolean
ExpandAction_NoFsTest(p, c) ==
  Cond(And(FinalOnExpand(p, c), Not(p.disableFullscreenMode)),
       ToolbarAction([label |-> "Fullscreen", show_label |-> Undefined,
                      icon |-> "Fullscreen", onClick |-> FinalOnExpand(p, c)]))

\* slip: disableFullscreenMode is ignored by the expand action
ExpandAction_NoDisableTest(p, c) ==
  Cond(And(FinalOnExpand(p, c), Not(FinalIsFullScreen(p, c))),
       ToolbarAction([label |-> "Fullscreen", show_label |-> Undefined,
                      icon |-> "Fullscreen", onClick |-> FinalOnExpand(p, c)]))

\* slip: the expand action is wired to the collapse callback
ExpandAction_CallsCollapse(p, c) ==
  Cond(And(And(FinalOnExpand(p, c), Not(p.disableFullscreenMode)),
           Not(FinalIsFullScreen(p, c))),
       ToolbarAction([label |-> "Fullscreen", show_label |-> Undefined,
                      icon |-> "Fullscreen", onClick |-> FinalOnCollapse(p, c)]))

\* the arrow function () => f() is identified with f, the only thing it calls
ExpandAction(p, c) ==
  Cond(And(And(FinalOnExpand(p, c), Not(p.disableFullscreenMode)),
           Not(FinalIsFullScreen(p, c))),
       ToolbarAction([label |-> "Fullscreen", show_label |-> Undefined,
                      icon |-> "Fullscreen", onClick |-> FinalOnExpand(p, c)]))

\* slip: the collapse action is not tied to the fullscreen boolean
CollapseAction_NoFsTest(p, c) ==
  Cond(And(FinalOnCollapse(p, c), Not(p.disableFullscreenMode)),
       ToolbarAction([label |-> "Close fullscreen", show_label |-> Undefined,
                      icon |-> "FullscreenExit", onClick |-> FinalOnCollapse(p, c)]))


CollapseAction(p, c) ==
  Cond(And(And(FinalOnCollapse(p, c), Not(p.disableFullscreenMode)),
           FinalIsFullScreen(p, c)),
       ToolbarAction([label |-> "Close fullscreen", show_label |-> Undefined,
                      icon |-> "FullscreenExit", onClick |-> FinalOnCollapse(p, c)]))

\* result of a render that threw: nothing is mounted
RenderError ==
  [status |-> "error", testid |-> Undefined, locked |-> Undefined,
   nodes |-> <<>>]

\* slip: a missing provider is read as an empty context instead of throwing
Toolbar_NoThrow(p, c) ==
  [status |-> "rendered",
   testid |-> "stElementToolbar",
   locked |-> WrapperLocked(p, c),
   nodes |-> [i \in 1..Len(p.children) |-> ToolbarAction(p.children[i])]
               \o ExpandAction(p, c) \o CollapseAction(p, c)]


Toolbar(p, c) ==
  IF useRequiredContext(c).threw
  THEN RenderError
  ELSE LET v == useRequiredContext(c).value
       IN [status |-> "rendered",
           testid |-> "stElementToolbar",
           locked |-> WrapperLocked(p, v),
           nodes |-> [i \in 1..Len(p.children) |-> ToolbarAction(p.children[i])]
                       \o ExpandAction(p, v) \o CollapseAction(p, v)]

\* ------------------------------------------------- events and the context
\* the provider's expand / collapse set its expanded state; other callbacks
\* belong to the caller and do not touch the context
Invoke(fn, c) ==
  IF ~c.provided THEN c
  ELSE IF fn = "expand" THEN [c EXCEPT !.expanded = "true"]
  ELSE IF fn = "collapse" THEN [c EXCEPT !.expanded = "false"]
  ELSE c

RECURSIVE RunLog(_, _)
RunLog(log, c) ==
  IF log = <<>> THEN c
  ELSE RunLog(Tail(log), IF Head(log).op = "call" THEN Invoke(Head(log).fn, c) ELSE c)

\* a click event delivered to a button, then bubbling to the click handler of
\* the element the toolbar overlays unless propagation was stopped
Dispatch(onClick) ==
  LET log == ButtonOnClick(onClick)
      stopped == \E i \in 1..Len(log) : log[i].op = "stopPropagation"
  IN log \o (IF stopped THEN <<>> ELSE <<[op |-> "ancestorClick", fn |-> Undefined]>>)

\* -------------------------------------------------------------------- state
DefaultProps ==
  [onExpand |-> Undefined, onCollapse |-> Undefined, isFullScreen |-> Undefined,
   locked |-> Undefined, disableFullscreenMode |-> Undefined,
   children |-> <<>>]

Init ==
  /\ props = DefaultProps
  /\ ctx = ContextValue("false")
  /\ out = Toolbar(props, ctx)
  /\ eventLog = <<>>

\* the parent renders the Toolbar with new props
Rerender(p) ==
  /\ props' = p
  /\ out' = Toolbar(p, ctx)
  /\ eventLog' = <<>>
  /\ UNCHANGED ctx

SetOnExpand == \E v \in {Undefined, "onExpand"} : Rerender([props EXCEPT !.onExpand = v])

SetOnCollapse == \E v \in {Undefined, "onCollapse"} : Rerender([props EXCEPT !.onCollapse = v])

SetIsFullScreen == \E v \in OptBool : Rerender([props EXCEPT !.isFullScreen = v])

SetLocked == \E v \in OptBool : Rerender([props EXCEPT !.locked = v])

SetDisableFullscreenMode ==
  \E v \in OptBool : Rerender([props EXCEPT !.disableFullscreenMode = v])

AddChild ==
  /\ Len(props.children) < MaxChildren
  /\ \E a \in ToolbarActionProps : Rerender([props EXCEPT !.children = Append(@, a)])

RemoveChild ==
  /\ Len(props.children) > 0
  /\ Rerender([props EXCEPT !.children = SubSeq(@, 1, Len(@) - 1)])

\* the provider's value changes (mounted, unmounted, or toggled by another consumer)
ContextChange ==
  \E c \in Contexts :
    /\ c # ctx
    /\ ctx' = c
    /\ out' = Toolbar(props, c)
    /\ eventLog' = <<>>
    /\ UNCHANGED props

\* the user clicks the i-th rendered action button
Click ==
  \E i \in 1..Len(out.nodes) :
    LET log == Dispatch(out.nodes[i].onClick)
    IN /\ eventLog' = log
       /\ ctx' = RunLog(log, ctx)
       /\ out' = Toolbar(props, ctx')
       /\ UNCHANGED props

Next ==
  \/ SetOnExpand
  \/ SetOnCollapse
  \/ SetIsFullScreen
  \/ SetLocked
  \/ SetDisableFullscreenMode
  \/ AddChild
  \/ RemoveChild
  \/ ContextChange
  \/ Click

Spec == Init /\ [][Next]_vars

\* ------------------------------------------------------------- properties
TypeOK ==
  /\ props \in ToolbarProps
  /\ ctx \in Contexts
  /\ out.status \in {"rendered", "error"}

ChildCount == Len(props.children)

\* the action buttons the Toolbar appends after the caller's children
Builtin == SubSeq(out.nodes, ChildCount + 1, Len(out.nodes))

BuiltinLabels == {Builtin[i].ariaLabel : i \in 1..Len(Builtin)}

\* effective values as the specification words them
EffExpand == IF props.onExpand # Undefined THEN props.onExpand ELSE ctx.expand

EffCollapse == IF props.onCollapse # Undefined THEN props.onCollapse ELSE ctx.collapse

EffFullScreen ==
  IF props.isFullScreen \in {"true", "false"} THEN props.isFullScreen ELSE ctx.expanded

Disabled == props.disableFullscreenMode = "true"

Called(log) == {log[i].fn : i \in {j \in 1..Len(log) : log[j].op = "call"}}

HasSpan(node) == \E i \in 1..Len(node.content) : node.content[i].tag = "span"

\* C1: inside a fullscreen context the built-in actions rendered are exactly
\* those of the three-branch rule: {"Fullscreen"} if an expand callback exists,
\* fullscreen mode is not disabled and the element is not fullscreen; else
\* {"Close fullscreen"} if a collapse callback exists, fullscreen mode is not
\* disabled and the element is fullscreen; else none.
C1_ThreeBranchRule ==
  ctx.provided =>
    /\ Len(Builtin) = Cardinality(BuiltinLabels)
    /\ BuiltinLabels =
         IF EffExpand # Undefined /\ ~Disabled /\ EffFullScreen = "false"
         THEN {"Fullscreen"}
         ELSE IF EffCollapse # Undefined /\ ~Disabled /\ EffFullScreen = "true"
         THEN {"Close fullscreen"}
         ELSE {}

C1_Witness ==
  /\ ctx.provided
  /\ props.isFullScreen = "true"
  /\ ctx.expanded = "false"
  /\ props.disableFullscreenMode = "false"
  /\ BuiltinLabels = {"Close fullscreen"}

\* C2: explicit props win over the context: the effective expand (collapse)
\* callback is the prop when supplied and the context's otherwise, and the
\* effective fullscreen boolean is the isFullScreen prop whenever supplied
\* (an explicit false included) and the context's expanded otherwise; the
\* rendered actions and the locked state follow these values.
C2_PropsTakePrecedence ==
  ctx.provided =>
    /\ FinalOnExpand(props, ctx) = EffExpand
    /\ FinalOnCollapse(props, ctx) = EffCollapse
    /\ FinalIsFullScreen(props, ctx) = EffFullScreen
    /\ \A i \in 1..Len(Builtin) :
         /\ Builtin[i].ariaLabel = "Fullscreen" =>
              Builtin[i].onClick = EffExpand /\ EffFullScreen = "false"
         /\ Builtin[i].ariaLabel = "Close fullscreen" =>
              Builtin[i].onClick = EffCollapse /\ EffFullScreen = "true"
    /\ (props.isFullScreen = "false" /\ ~Disabled) => "Fullscreen" \in BuiltinLabels
    /\ (props.isFullScreen = "true" /\ ~Disabled) => "Close fullscreen" \in BuiltinLabels

C2_Witness ==
  /\ ctx.provided
  /\ props.isFullScreen = "false"
  /\ ctx.expanded = "true"
  /\ props.onExpand = "onExpand"
  /\ \E i \in 1..Len(Builtin) : Builtin[i].onClick = "onExpand"

\* C3: without a fullscreen context the render ends in an error and nothing of
\* the toolbar is produced: no container, no children, no built-in action.
C3_NoContextIsFatal ==
  ~ctx.provided =>
    /\ out.status = "error"
    /\ out.testid = Undefined
    /\ out.nodes = <<>>
    /\ out.locked = Undefined

C3_Witness ==
  /\ ~ctx.provided
  /\ props.isFullScreen = Undefined
  /\ props.onExpand = Undefined
  /\ props.onCollapse = Undefined
  /\ ChildCount > 0
  /\ out.status = "error"

C5_AtMostOneBuiltin ==
  /\ Len(Builtin) <= 1
  /\ "Fullscreen" \in BuiltinLabels => EffFullScreen = "false"
  /\ "Close fullscreen" \in BuiltinLabels => EffFullScreen = "true"

C5_Witness ==
  /\ "expand" \in Called(eventLog)
  /\ props.isFullScreen = Undefined
  /\ BuiltinLabels = {"Close fullscreen"}

\* C6: with disableFullscreenMode true no built-in action is rendered, whatever
\* the other props and the context's expanded state; the children still are.
C6_DisabledRendersNoBuiltin ==
  Disabled =>
    /\ Builtin = <<>>
    /\ ctx.provided =>
         /\ Len(out.nodes) = ChildCount
         /\ \A i \in 1..ChildCount : out.nodes[i].ariaLabel = props.children[i].label

C6_Witness ==
  /\ Disabled
  /\ ctx.provided
  /\ ctx.expanded = "true"
  /\ props.onCollapse = "onCollapse"
  /\ props.locked = "true"
  /\ ChildCount > 0
  /\ Len(out.nodes) = ChildCount

\* C7: every action button's accessible name is its label whatever show_label
\* is; a text node holding the label is rendered only if show_label is true,
\* and otherwise the button holds at most its icon.
C7_AccessibleName ==
  ctx.provided =>
    /\ \A i \in 1..ChildCount :
         LET a == props.children[i]
             n == out.nodes[i]
         IN /\ n.ariaLabel = a.label
            /\ \A k \in 1..Len(n.content) :
                 n.content[k].tag = "span" =>
                   a.show_label = "true" /\ n.content[k].value = a.label
            /\ a.show_label # "true" =>
                 /\ ~HasSpan(n)
                 /\ \A k \in 1..Len(n.content) :
                      n.content[k] = [tag |-> "Icon", value |-> a.icon]
    /\ \A i \in 1..Len(Builtin) :
         /\ Builtin[i].ariaLabel \in {"Fullscreen", "Close fullscreen"}
         /\ ~HasSpan(Builtin[i])

C7_Witness ==
  /\ ctx.provided
  /\ ChildCount > 0
  /\ props.children[1].show_label = "false"
  /\ props.children[1].label = "Download"
  /\ out.nodes[1].ariaLabel = "Download"
  /\ ~HasSpan(out.nodes[1])

\* C8 as stated: without an onExpand prop no "Fullscreen" action is rendered,
\* without an onCollapse prop no "Close fullscreen" action, and no error.
C8_AsStated ==
  /\ props.onExpand = Undefined => "Fullscreen" \notin BuiltinLabels
  /\ props.onCollapse = Undefined => "Close fullscreen" \notin BuiltinLabels
  /\ ctx.provided => out.status = "rendered"

\* C8: inside a fullscreen context a missing callback prop raises no error and
\* falls back to the context: without onExpand the "Fullscreen" action is
\* rendered exactly when fullscreen mode is not disabled and the effective
\* fullscreen boolean is false, and it calls the context's expand; likewise
\* onCollapse, "Close fullscreen" and the context's collapse.
C8_MissingPropFallsBack ==
  ctx.provided =>
    /\ out.status = "rendered"
    /\ props.onExpand = Undefined =>
         /\ "Fullscreen" \in BuiltinLabels <=> (~Disabled /\ EffFullScreen = "false")
         /\ \A i \in 1..Len(Builtin) :
              Builtin[i].ariaLabel = "Fullscreen" => Builtin[i].onClick = ctx.expand
    /\ props.onCollapse = Undefined =>
         /\ "Close fullscreen" \in BuiltinLabels <=> (~Disabled /\ EffFullScreen = "true")
         /\ \A i \in 1..Len(Builtin) :
              Builtin[i].ariaLabel = "Close fullscreen" => Builtin[i].onClick = ctx.collapse

C8_Witness ==
  /\ ctx.provided
  /\ props.onExpand = Undefined
  /\ props.onCollapse = "onCollapse"
  /\ \E i \in 1..Len(Builtin) :
       Builtin[i].ariaLabel = "Fullscreen" /\ Builtin[i].onClick = "expand"

\* C9: a click on a built-in action calls the effective expand callback and
\* nothing else, only while the effective fullscreen boolean is false, or the
\* effective collapse callback and nothing else, only while it is true; a
\* click changes the context's expanded state only through expand / collapse.
C9_TwoStateMachine ==
  [][(eventLog' # <<>> /\ Called(eventLog') # {"childOnClick"}) =>
       /\ Len(eventLog') = 2
       /\ \/ /\ Called(eventLog') = {EffExpand}
             /\ EffFullScreen = "false"
             /\ ctx'.expanded = IF EffExpand = "expand" THEN "true" ELSE ctx.expanded
          \/ /\ Called(eventLog') = {EffCollapse}
             /\ EffFullScreen = "true"
             /\ ctx'.expanded = IF EffCollapse = "collapse" THEN "false" ELSE ctx.expanded]_vars

C9_Witness ==
  /\ Called(eventLog) = {"collapse"}
  /\ ctx.expanded = "false"
  /\ props.isFullScreen = Undefined
  /\ BuiltinLabels = {"Fullscreen"}

\* C10: the locked state given to the container is true exactly when the
\* locked prop is true or the effective fullscreen boolean is true, and a
\* change of the locked prop alone leaves the built-in actions, with the
\* callbacks they call, as they were.
C10_LockedIsStylingOnly ==
  /\ [](ctx.provided =>
          (out.locked = "true" <=> (props.locked = "true" \/ EffFullScreen = "true")))
  /\ [][(props'.locked # props.locked /\ props' = [props EXCEPT !.locked = props'.locked]
           /\ ctx' = ctx /\ ctx.provided)
          => Builtin' = Builtin]_vars

C10_Witness ==
  /\ ctx.provided
  /\ props.locked = "false"
  /\ EffFullScreen = "true"
  /\ out.locked = "true"
  /\ BuiltinLabels = {"Close fullscreen"}
====
